---- MODULE Spec2Model ----
(***************************************************************************)
(* Foundry: the planner (internal/plan: Build, TopologicalSort), the       *)
(* executor (internal/exec: Execute, executeStep, executeStepAttempt) and  *)
(* the configuration (internal/config: Validate, ResolveProfile).          *)
(*                                                                         *)
(* SpecSort  : TopologicalSort applied to every bounded step list.         *)
(* SpecBuild : Build called repeatedly on one bounded input.               *)
(* SpecExec  : one Execute call, one goroutine per step, interleaved.      *)
(* SpecExecFair : SpecExec under a fair scheduler.                         *)
(* SpecExecLocks : Execute with its mutexes taken in steps of their own.   *)
(* SpecConfig : internal/config, Validate and ResolveProfile on one        *)
(*              bounded configuration.                                     *)
(***************************************************************************)
EXTENDS Integers, Sequences, FiniteSets, TLC

(***************************************************************************)
(* Bounds of the model.                                                    *)
(***************************************************************************)
NumIds == 3
MaxSteps == 3
MaxDeps == 2
MaxBuilds == 2
MaxBuildSteps == 2
MaxExecSteps == 3
MaxJobs == 3
MaxRetries == 1
MaxFairRetrySteps == 2
MaxLockedSteps == 2
MaxProfiles == 3
MaxProfileSteps == 2
MaxCallDepth == 5

(***************************************************************************)
(* Step ids are Go strings: sequences of byte values.  1, 2, 3, 4 stand    *)
(* for 'a', 'b', 'c', 'd'; <<1, 2>> is "ab".                               *)
(***************************************************************************)
IdList == << <<1>>, <<2>>, <<1, 2>>, <<3>>, <<4>> >>

Ids == {IdList[i] : i \in 1..(IF NumIds < Len(IdList) THEN NumIds ELSE Len(IdList))}

Min(a, b) == IF a < b THEN a ELSE b

\* Go's < on strings: bytewise, a proper prefix is smaller.
LexLess(s, t) ==
    \E k \in 1..(Min(Len(s), Len(t)) + 1) :
        /\ \A j \in 1..(k - 1) : s[j] = t[j]
        /\ \/ k <= Len(s) /\ k <= Len(t) /\ s[k] < t[k]
           \/ k = Len(s) + 1 /\ k <= Len(t)

RECURSIVE InsertSorted(_, _)
InsertSorted(x, sorted) ==
    IF sorted = <<>> THEN <<x>>
    ELSE IF LexLess(Head(sorted), x) THEN <<Head(sorted)>> \o InsertSorted(x, Tail(sorted))
    ELSE <<x>> \o sorted

\* slices.Sort on a []string.
RECURSIVE SortStrings(_)
SortStrings(seq) ==
    IF seq = <<>> THEN <<>> ELSE InsertSorted(Head(seq), SortStrings(Tail(seq)))

Range(seq) == {seq[i] : i \in 1..Len(seq)}

\* All sequences over S of length at most n.
SeqsUpTo(S, n) == UNION {[1..k -> S] : k \in 0..n}

\* All subsequences of a sequence.
RECURSIVE SubsetSeqs(_)
SubsetSeqs(seq) ==
    IF seq = <<>> THEN {<<>>}
    ELSE LET rest == SubsetSeqs(Tail(seq))
         IN  rest \cup {<<Head(seq)>> \o r : r \in rest}

\* All orderings of the elements of a finite set (a Go map's iteration orders).
Orderings(S) == {q \in [1..Cardinality(S) -> S] : Range(q) = S}

(***************************************************************************)
(* internal/plan: TopologicalSort.                                         *)
(***************************************************************************)
\* A PlanStep as the sort reads it.
SortSteps == [id : Ids, deps : SeqsUpTo(Ids, MaxDeps)]

\* Keys of stepMap.
StepMapKeys(steps) == {steps[i].id : i \in 1..Len(steps)}

\* Ids named anywhere in the list: keys of adjList and of stepMap.
MentionedIds(steps) == StepMapKeys(steps) \cup UNION {Range(steps[i].deps) : i \in 1..Len(steps)}

RECURSIVE CountDeps(_, _)
CountDeps(steps, id) ==
    IF steps = <<>> THEN 0
    ELSE (IF Head(steps).id = id THEN Len(Head(steps).deps) ELSE 0) + CountDeps(Tail(steps), id)

\* Mutant: only the deps that are ids of steps are counted.
BuildInDegree_KnownDepsOnly(steps) ==
    [id \in StepMapKeys(steps) |->
        Cardinality({ij \in UNION {{<<i, j>> : j \in 1..Len(steps[i].deps)} : i \in 1..Len(steps)} :
                        /\ steps[ij[1]].id = id
                        /\ steps[ij[1]].deps[ij[2]] \in StepMapKeys(steps)})]

\* Mutant: inDegree[step.ID] = 1 in place of inDegree[step.ID]++.
BuildInDegree_Assign(steps) ==
    [id \in StepMapKeys(steps) |-> IF CountDeps(steps, id) > 0 THEN 1 ELSE 0]

\* inDegree after the first loop: one increment per entry of Deps.
BuildInDegree(steps) == [id \in StepMapKeys(steps) |-> CountDeps(steps, id)]

RECURSIVE Dependents(_, _)
Dependents(steps, dep) ==
    IF steps = <<>> THEN <<>>
    ELSE [j \in 1..Cardinality({k \in 1..Len(Head(steps).deps) : Head(steps).deps[k] = dep})
             |-> Head(steps).id] \o Dependents(Tail(steps), dep)

\* adjList after the first loop: dep -> the ids that list it, in input order.
BuildAdjList(steps) == [d \in MentionedIds(steps) |-> Dependents(steps, d)]

\* Mutant: the initial ready list is left in map iteration order.
InitialReady_Unsorted(inDegree, mapOrder) ==
    SelectSeq(mapOrder, LAMBDA id : inDegree[id] = 0)

\* The zero in-degree ids in the map's iteration order, then slices.Sort(ready).
InitialReady(inDegree, mapOrder) ==
    SortStrings(SelectSeq(mapOrder, LAMBDA id : inDegree[id] = 0))

\* Mutant: a newly ready neighbor is appended without re-sorting ready.
RelaxNeighbor_NoResort(st, neighbor) ==
    LET d == st.inDegree[neighbor] - 1
    IN  [inDegree |-> [st.inDegree EXCEPT ![neighbor] = d],
         ready |-> IF d = 0 THEN Append(st.ready, neighbor) ELSE st.ready]

\* Body of the neighbor loop: decrement, and on zero append and re-sort.
RelaxNeighbor(st, neighbor) ==
    LET d == st.inDegree[neighbor] - 1
    IN  [inDegree |-> [st.inDegree EXCEPT ![neighbor] = d],
         ready |-> IF d = 0 THEN SortStrings(Append(st.ready, neighbor)) ELSE st.ready]

RECURSIVE RelaxAll(_, _)
RelaxAll(st, neighbors) ==
    IF neighbors = <<>> THEN st
    ELSE RelaxAll(RelaxNeighbor(st, Head(neighbors)), Tail(neighbors))

\* The main loop: pop the first ready id, append it, relax its sorted neighbors.
RECURSIVE KahnLoop(_, _, _, _)
KahnLoop(ready, order, inDegree, adjList) ==
    IF ready = <<>> THEN order
    ELSE LET current == Head(ready)
             st == RelaxAll([inDegree |-> inDegree, ready |-> Tail(ready)],
                            SortStrings(adjList[current]))
         IN  KahnLoop(st.ready, Append(order, current), st.inDegree, adjList)

\* Mutant: the length check is missing and the order is returned as it is.
SortResult_NoCycleCheck(order, steps) ==
    [order |-> order, isNil |-> FALSE, err |-> ""]

\* The cycle check and the two returns that follow the loop.
SortResult(order, steps) ==
    IF Len(order) # Len(steps)
    THEN [order |-> <<>>, isNil |-> TRUE, err |-> "cycle detected"]
    ELSE [order |-> order, isNil |-> FALSE, err |-> ""]

TopologicalSort(steps, mapOrder) ==
    IF Len(steps) = 0 THEN [order |-> <<>>, isNil |-> FALSE, err |-> ""]
    ELSE LET inDegree == BuildInDegree(steps)
             adjList == BuildAdjList(steps)
         IN  SortResult(KahnLoop(InitialReady(inDegree, mapOrder), <<>>, inDegree, adjList), steps)

\* The map iteration order that follows the first occurrences of the ids.
RECURSIVE FirstOccurrences(_, _)
FirstOccurrences(steps, seen) ==
    IF steps = <<>> THEN <<>>
    ELSE IF Head(steps).id \in seen THEN FirstOccurrences(Tail(steps), seen)
    ELSE <<Head(steps).id>> \o FirstOccurrences(Tail(steps), seen \cup {Head(steps).id})

(***************************************************************************)
(* internal/plan: Build.                                                   *)
(***************************************************************************)
\* Stand-in for crypto/sha256 followed by hex.EncodeToString: a digest that
\* is a function of the bytes alone, written as hexadecimal digits.
RECURSIVE Digest(_, _)
Digest(data, h) ==
    IF data = <<>> THEN h ELSE Digest(Tail(data), (h * 31 + Head(data) + 1) % 65536)

HexDigit(n) == <<"0", "1", "2", "3", "4", "5", "6", "7", "8", "9", "a", "b", "c", "d", "e", "f">>[n + 1]

Sha256Hex(data) ==
    LET h == Digest(data, 7)
    IN  <<HexDigit(h \div 4096), HexDigit((h \div 256) % 16), HexDigit((h \div 16) % 16), HexDigit(h % 16)>>

\* time.Now().UTC().Format(time.RFC3339): the clock counts half seconds, the
\* format keeps whole seconds.
FormatRFC3339(now) == now \div 2

\* The copy of one config.Step into a PlanStep.
ToPlanStep(s) ==
    [id |-> s.id, type |-> s.type, command |-> s.command, deps |-> s.deps,
     env |-> s.env, timeout |-> s.timeout, retries |-> s.retries]

ToPlanSteps(steps) == [i \in 1..Len(steps) |-> ToPlanStep(steps[i])]

NoPlan == [plan |-> <<>>]

\* Mutant: the profile name is not checked.
Build_NoProfileCheck(projectName, profileName, steps, configData, now, mapOrder) ==
    IF projectName = "" THEN NoPlan @@ [err |-> "build plan: project name is empty"]
    ELSE LET planSteps == ToPlanSteps(steps)
             sorted == TopologicalSort(planSteps, mapOrder)
         IN  IF sorted.err # "" THEN NoPlan @@ [err |-> "build plan: " \o sorted.err]
             ELSE [plan |-> <<[version |-> 1, project_name |-> projectName,
                              profile |-> profileName, config_hash |-> Sha256Hex(configData),
                              created_at |-> FormatRFC3339(now), steps |-> planSteps,
                              order |-> sorted.order]>>,
                   err |-> ""]

Build(projectName, profileName, steps, configData, now, mapOrder) ==
    IF projectName = "" THEN NoPlan @@ [err |-> "build plan: project name is empty"]
    ELSE IF profileName = "" THEN NoPlan @@ [err |-> "build plan: profile name is empty"]
    ELSE LET planSteps == ToPlanSteps(steps)
             sorted == TopologicalSort(planSteps, mapOrder)
         IN  IF sorted.err # "" THEN NoPlan @@ [err |-> "build plan: " \o sorted.err]
             ELSE [plan |-> <<[version |-> 1, project_name |-> projectName,
                              profile |-> profileName, config_hash |-> Sha256Hex(configData),
                              created_at |-> FormatRFC3339(now), steps |-> planSteps,
                              order |-> sorted.order]>>,
                   err |-> ""]

(***************************************************************************)
(* internal/exec: Execute, executeStep, executeStepAttempt.                *)
(***************************************************************************)
EmptyPlan ==
    [version |-> 1, project_name |-> "", profile |-> "", config_hash |-> <<>>,
     created_at |-> 0, steps |-> <<>>, order |-> <<>>]

\* stepMap: a later step of p.Steps overwrites an earlier one with the same id.
StepMap(p) ==
    [id \in StepMapKeys(p.steps) |->
        p.steps[CHOOSE i \in 1..Len(p.steps) :
                    /\ p.steps[i].id = id
                    /\ \A j \in 1..Len(p.steps) : p.steps[j].id = id => j <= i]]

\* The two skipped results a goroutine can record.
\* Mutant: the cancelled skip counts as a first attempt.
CancelledSkip_AttemptOne(stepID) ==
    [id |-> stepID, status |-> "skipped", error |-> "execution cancelled", exitCode |-> 0, attempt |-> 1]

CancelledSkip(stepID) ==
    [id |-> stepID, status |-> "skipped", error |-> "execution cancelled", exitCode |-> 0, attempt |-> 0]

DependencySkip(stepID) ==
    [id |-> stepID, status |-> "skipped", error |-> "dependency failed", exitCode |-> 0, attempt |-> 0]

\* Mutant: the wait looks at the first dep only.
AllDepsComplete_FirstOnly(step, res) == step.deps = <<>> \/ step.deps[1] \in DOMAIN res

\* The dependency wait: every dep has an entry in results.
AllDepsComplete(step, res) == \A dep \in Range(step.deps) : dep \in DOMAIN res

\* The dependency check: some dep is in failedSteps.
DepFailed(step, failed) == \E dep \in Range(step.deps) : dep \in failed

\* Mutant: one attempt more than retries + 1.
MaxAttempts_OneMore(step) == IF step.retries + 2 < 1 THEN 1 ELSE step.retries + 2

\* maxAttempts of executeStep.
MaxAttempts(step) == IF step.retries + 1 < 1 THEN 1 ELSE step.retries + 1

\* executeStepAttempt up to cmd.Run: the results that need no process.
ConfigFailure(step, n) ==
    IF step.type # "shell"
    THEN <<[id |-> step.id, status |-> "failed", error |-> "unsupported step type", exitCode |-> 0, attempt |-> n]>>
    ELSE IF Len(step.command) = 0
    THEN <<[id |-> step.id, status |-> "failed", error |-> "empty command", exitCode |-> 0, attempt |-> n]>>
    ELSE <<>>

\* os.Create of the attempt's log file fails.
LogFileFailure(step, n) ==
    [id |-> step.id, status |-> "failed", error |-> "create log file", exitCode |-> 0, attempt |-> n]

\* time.ParseDuration on the strings the model uses: <<seconds>>, <<>> for an error.
ParseDuration(s) == IF s = "0s" THEN <<0>> ELSE IF s = "1s" THEN <<1>> ELSE <<>>

\* The timeout string of the step does not parse.
TimeoutFailure(step, n) ==
    IF step.timeout # "" /\ ParseDuration(step.timeout) = <<>>
    THEN <<[id |-> step.id, status |-> "failed", error |-> "invalid timeout", exitCode |-> 0, attempt |-> n]>>
    ELSE <<>>

\* The local timeout of executeStepAttempt, for a step whose timeout string parses.
AttemptTimeout(step, o) ==
    IF step.timeout # "" THEN ParseDuration(step.timeout)[1] ELSE o.DefaultTimeout

\* The error values of cmd.Run: nil, an *exec.ExitError (whose ExitCode() is
\* the exit code of the process, or -1 for a process ended by a signal), or
\* another error.
NilError == [kind |-> "nil", code |-> 0, msg |-> ""]

ExitError(code, msg) == [kind |-> "ExitError", code |-> code, msg |-> msg]

OtherError(msg) == [kind |-> "error", code |-> 0, msg |-> msg]

\* Mutant: every error of cmd.Run is recorded with exit code -1.
AttemptResult_AlwaysMinusOne(step, n, err) ==
    IF err.kind # "nil"
    THEN [id |-> step.id, status |-> "failed", error |-> err.msg, exitCode |-> -1, attempt |-> n]
    ELSE [id |-> step.id, status |-> "success", error |-> "", exitCode |-> 0, attempt |-> n]

\* executeStepAttempt after cmd.Run: the result made of its error value.
AttemptResult(step, n, err) ==
    IF err.kind # "nil"
    THEN [id |-> step.id, status |-> "failed", error |-> err.msg,
          exitCode |-> IF err.kind = "ExitError" THEN err.code ELSE -1, attempt |-> n]
    ELSE [id |-> step.id, status |-> "success", error |-> "", exitCode |-> 0, attempt |-> n]

\* cmd.Run for a program that is not found: Start returns the lookup error.
LaunchFailure(step, n) == AttemptResult(step, n, OtherError("executable file not found"))

\* cmd.Run under a context that is already done: Start returns ctx.Err().
StartCancelled(step, n) == AttemptResult(step, n, OtherError("context canceled"))

\* Mutant: a done context does not kill the process.
RunErrors_NoKill(step, ctxDone, deadline) ==
    (IF step.command[1] \in {"false", "exit2", "forever"} THEN {} ELSE {NilError})
    \cup (IF step.command[1] \in {"true", "exit2", "forever"} THEN {} ELSE {ExitError(1, "exit status 1")})
    \cup (IF step.command[1] = "exit2" THEN {ExitError(2, "exit status 2")} ELSE {})
    \cup (IF deadline > 0 THEN {ExitError(-1, "signal: killed")} ELSE {})

\* How cmd.Run can return for a started process: the process ends by itself
\* ("true" exits 0, "false" exits 1, "exit2" exits 2, "forever" never ends,
\* any other program exits 0 or 1), or it is killed once the context is done
\* or the deadline has passed.
RunErrors(step, ctxDone, deadline) ==
    (IF step.command[1] \in {"false", "exit2", "forever"} THEN {} ELSE {NilError})
    \cup (IF step.command[1] \in {"true", "exit2", "forever"} THEN {} ELSE {ExitError(1, "exit status 1")})
    \cup (IF step.command[1] = "exit2" THEN {ExitError(2, "exit status 2")} ELSE {})
    \cup (IF ctxDone \/ deadline > 0 THEN {ExitError(-1, "signal: killed")} ELSE {})

\* The results of an attempt whose process was started.
RunOutcomes(step, n, ctxDone, deadline) ==
    {AttemptResult(step, n, err) : err \in RunErrors(step, ctxDone, deadline)}

\* Mutant: the retry loop does not look at ctx.Err().
AfterAttempt_IgnoresCancel(step, result, ctxDone) ==
    IF result.status = "success" THEN "record"
    ELSE IF result.attempt < MaxAttempts(step) THEN "pause"
    ELSE "record"

\* Mutant: an attempt that failed before any process was started is not retried.
AfterAttempt_ConfigErrorsFinal(step, result, ctxDone) ==
    IF result.status = "success" THEN "record"
    ELSE IF ctxDone THEN "record"
    ELSE IF result.exitCode = 0 THEN "record"
    ELSE IF result.attempt < MaxAttempts(step) THEN "pause"
    ELSE "record"

\* Mutant: a successful attempt does not end the retry loop.
AfterAttempt_NoShortCircuit(step, result, ctxDone) ==
    IF ctxDone THEN "record"
    ELSE IF result.attempt < MaxAttempts(step) THEN "pause"
    ELSE "record"

\* executeStep after an attempt: where the retry loop goes next.
AfterAttempt(step, result, ctxDone) ==
    IF result.status = "success" THEN "record"
    ELSE IF ctxDone THEN "record"
    ELSE IF result.attempt < MaxAttempts(step) THEN "pause"
    ELSE "record"

\* Mutant: the results are listed from the last id of the order to the first.
CollectResults_Reversed(order, res, stepResults, overallStatus) ==
    IF \E id \in Range(order) : id \notin DOMAIN res
    THEN [result |-> <<>>, err |-> "execute: missing result for step"]
    ELSE [result |-> <<[status |-> IF \E id \in Range(order) : res[id].status = "failed"
                                  THEN "failed" ELSE overallStatus,
                        steps |-> [i \in 1..Len(order) |-> res[order[Len(order) + 1 - i]]]]>>,
          err |-> ""]

\* Mutant: a skipped step makes the overall status failed, too.
CollectResults_SkippedFails(order, res, stepResults, overallStatus) ==
    IF \E id \in Range(order) : id \notin DOMAIN res
    THEN [result |-> <<>>, err |-> "execute: missing result for step"]
    ELSE [result |-> <<[status |-> IF \E id \in Range(order) : res[id].status # "success"
                                  THEN "failed" ELSE overallStatus,
                        steps |-> [i \in 1..Len(order) |-> res[order[i]]]]>>,
          err |-> ""]

\* The collection loop and the return of Execute.
RECURSIVE CollectResults(_, _, _, _)
CollectResults(order, res, stepResults, overallStatus) ==
    IF order = <<>>
    THEN [result |-> <<[status |-> overallStatus, steps |-> stepResults]>>, err |-> ""]
    ELSE IF Head(order) \notin DOMAIN res
    THEN [result |-> <<>>, err |-> "execute: missing result for step"]
    ELSE CollectResults(Tail(order), res, Append(stepResults, res[Head(order)]),
                        IF res[Head(order)].status = "failed" THEN "failed" ELSE overallStatus)

(***************************************************************************)
(* internal/config: Validate, ResolveProfile.                              *)
(***************************************************************************)
\* validStepTypes.
validStepTypes == {"shell", "plugin", "script"}

\* Go ends the program with a stack overflow when calls nest without end;
\* MaxCallDepth nested calls stand for that.
StackOverflow == "fatal error: stack overflow"

\* Mutant: the walk does not look at visited.
RECURSIVE checkExtendsCycle_NoVisited(_, _, _, _, _)
checkExtendsCycle_NoVisited(origin, profile, cfg, visited, depth) ==
    IF depth > MaxCallDepth THEN StackOverflow
    ELSE IF profile.extends = "" THEN ""
    ELSE IF profile.extends \notin DOMAIN cfg.profiles
    THEN "validate: extends non-existent profile"
    ELSE checkExtendsCycle_NoVisited(origin, cfg.profiles[profile.extends], cfg,
                                     visited \cup {profile.extends}, depth + 1)

\* checkExtendsCycle; depth counts the nested calls.
RECURSIVE checkExtendsCycle(_, _, _, _, _)
checkExtendsCycle(origin, profile, cfg, visited, depth) ==
    IF depth > MaxCallDepth THEN StackOverflow
    ELSE IF profile.extends = "" THEN ""
    ELSE IF profile.extends \in visited
    THEN "validate: circular extends chain detected"
    ELSE IF profile.extends \notin DOMAIN cfg.profiles
    THEN "validate: extends non-existent profile"
    ELSE checkExtendsCycle(origin, cfg.profiles[profile.extends], cfg,
                           visited \cup {profile.extends}, depth + 1)

\* The first loop of validateProfile over the steps; stepIDs holds the ids
\* seen so far.
RECURSIVE ValidateSteps(_, _)
ValidateSteps(steps, stepIDs) ==
    IF steps = <<>> THEN ""
    ELSE LET step == Head(steps)
         IN  IF step.id = <<>> THEN "validate: step with empty id"
             ELSE IF step.id \in stepIDs THEN "validate: duplicate step id"
             ELSE IF step.type \notin validStepTypes THEN "validate: invalid type"
             ELSE IF step.type = "shell" /\ Len(step.command) = 0
             THEN "validate: shell steps must have non-empty command"
             ELSE ValidateSteps(Tail(steps), stepIDs \cup {step.id})

\* Mutant: the second pass over the deps is left out.
ValidateDeps_None(steps) == ""

\* The second pass of validateProfile: every dep is the id of a step of this
\* profile.
ValidateDeps(steps) ==
    IF \E i \in 1..Len(steps) : \E dep \in Range(steps[i].deps) :
            dep \notin {steps[j].id : j \in 1..Len(steps)}
    THEN "validate: dependency not found in profile"
    ELSE ""

validateProfile(name, profile, cfg) ==
    IF profile.extends # "" /\ profile.extends \notin DOMAIN cfg.profiles
    THEN "validate: extends non-existent profile"
    ELSE LET cycle == checkExtendsCycle(name, profile, cfg, {name}, 1)
             first == ValidateSteps(profile.steps, {})
         IN  IF cycle # "" THEN cycle
             ELSE IF first # "" THEN first
             ELSE ValidateDeps(profile.steps)

\* The loop of Validate over cfg.Profiles, in the order the map iteration
\* happens to take.
RECURSIVE ValidateProfiles(_, _)
ValidateProfiles(cfg, mapOrder) ==
    IF mapOrder = <<>> THEN ""
    ELSE LET err == validateProfile(Head(mapOrder), cfg.profiles[Head(mapOrder)], cfg)
         IN  IF err # "" THEN err ELSE ValidateProfiles(cfg, Tail(mapOrder))

\* Validate: the error it returns, "" for nil.
Validate(cfg, isNil, mapOrder) ==
    IF isNil THEN "validate: config is nil"
    ELSE IF cfg.version # 1 THEN "validate: unsupported config version"
    ELSE IF cfg.projectName = "" THEN "validate: project.name must be non-empty"
    ELSE IF DOMAIN cfg.profiles = {} THEN "validate: at least one profile must be defined"
    ELSE ValidateProfiles(cfg, mapOrder)

\* Mutant: a step is always appended.
MergeStep_AlwaysAppend(baseSteps, step) == Append(baseSteps, step)

\* The body of the merge loop: the step replaces the first step of baseSteps
\* with its id, or is appended.
MergeStep(baseSteps, step) ==
    IF \E i \in 1..Len(baseSteps) : baseSteps[i].id = step.id
    THEN LET first == CHOOSE i \in 1..Len(baseSteps) :
                        /\ baseSteps[i].id = step.id
                        /\ \A j \in 1..(i - 1) : baseSteps[j].id # step.id
         IN  [baseSteps EXCEPT ![first] = step]
    ELSE Append(baseSteps, step)

\* The merge loop of resolveProfileChain.
RECURSIVE MergeSteps(_, _)
MergeSteps(baseSteps, steps) ==
    IF steps = <<>> THEN baseSteps
    ELSE MergeSteps(MergeStep(baseSteps, Head(steps)), Tail(steps))

ResolveError(msg) == [steps |-> <<>>, err |-> msg]

\* resolveProfileChain; depth counts the nested calls.
RECURSIVE resolveProfileChain(_, _, _, _)
resolveProfileChain(profile, cfg, visited, depth) ==
    IF depth > MaxCallDepth THEN ResolveError(StackOverflow)
    ELSE IF profile.extends = ""
    THEN [steps |-> MergeSteps(<<>>, profile.steps), err |-> ""]
    ELSE IF profile.extends \in visited
    THEN ResolveError("resolve profile: circular extends chain detected")
    ELSE IF profile.extends \notin DOMAIN cfg.profiles
    THEN ResolveError("resolve profile: extended profile not found")
    ELSE LET base == resolveProfileChain(cfg.profiles[profile.extends], cfg,
                                         visited \cup {profile.extends}, depth + 1)
         IN  IF base.err # "" THEN ResolveError(base.err)
             ELSE [steps |-> MergeSteps(base.steps, profile.steps), err |-> ""]

\* ResolveProfile: the steps and the error it returns.
ResolveProfile(cfg, isNil, name) ==
    IF isNil THEN ResolveError("resolve profile: config is nil")
    ELSE IF name \notin DOMAIN cfg.profiles THEN ResolveError("resolve profile: profile not found")
    ELSE resolveProfileChain(cfg.profiles[name], cfg, {name}, 1)

(***************************************************************************)
(* State.                                                                  *)
(***************************************************************************)
VARIABLES
    sortIn,     \* the []PlanStep handed to TopologicalSort
    sortOut,    \* <<>> before the call, <<result>> after it
    sortSeen,   \* the map iteration order the call happened to see
    buildIn,    \* the arguments of Build
    builds,     \* what each call of Build returned, in call order
    clock,      \* the wall clock, in half seconds
    plan,       \* Execute: the *plan.Plan p (EmptyPlan when pNil)
    pNil,       \* Execute: p == nil
    opts,       \* Execute: the Options
    entered,    \* Execute has passed its checks and set up its maps
    launched,   \* Execute: how many ids of p.Order the launch loop has passed
    pc,         \* per goroutine (index into p.Order): where it stands
    attempt,    \* per goroutine: the attempt counter of executeStep
    last,       \* per goroutine: <<result>> of the latest attempt, <<>> before
    timeout,    \* per goroutine: the timeout of the attempt under way (0: none)
    results,    \* the results map: step id -> StepResult
    failedSteps,\* the failedSteps set
    resultsMu,  \* the goroutine between resultsMu.Lock() and Unlock(), 0 if none
    failedMu,   \* the goroutine between failedMu.Lock() and Unlock(), 0 if none
    sem,        \* number of tokens in the sem channel
    slot,       \* the goroutines whose deferred <-sem is pending
    cancelled,  \* execCtx is done
    callerCancelled, \* the caller has cancelled ctx
    ret,        \* <<>> while Execute runs, <<its return values>> after
    cfg,        \* the *Config handed to Validate and ResolveProfile
    cfgNil,     \* cfg == nil
    validated,  \* <<>> before Validate is called, <<its error>> after
    resolveName,\* the name ResolveProfile was called with
    resolved    \* <<>> before ResolveProfile is called, <<its result>> after

sortVars == <<sortIn, sortOut, sortSeen>>
buildVars == <<buildIn, builds, clock>>
inputVars == <<plan, pNil, opts>>
lockVars == <<resultsMu, failedMu>>
execVars == <<inputVars, lockVars, entered, launched, pc, attempt, last, timeout, results, failedSteps, sem, slot,
              cancelled, callerCancelled, ret>>
configVars == <<cfg, cfgNil, validated, resolveName, resolved>>
vars == <<sortVars, buildVars, execVars, configVars>>

\* The step lists of the planner's tests (ids "a", "b", "c", "d").
TestNoDeps ==
    << [id |-> <<3>>, deps |-> <<>>], [id |-> <<1>>, deps |-> <<>>], [id |-> <<2>>, deps |-> <<>>] >>

TestDiamond ==
    << [id |-> <<1>>, deps |-> <<>>], [id |-> <<2>>, deps |-> << <<1>> >>],
       [id |-> <<3>>, deps |-> << <<1>> >>], [id |-> <<4>>, deps |-> << <<2>>, <<3>> >>] >>

TestCycle ==
    << [id |-> <<1>>, deps |-> << <<2>> >>], [id |-> <<2>>, deps |-> << <<1>> >>] >>

TestInputs == {TestNoDeps, TestDiamond, TestCycle}

\* The fields of a config.Step that the planner only copies.
StepBodies ==
    { [type |-> "shell", command |-> <<"echo">>, env |-> <<>>, timeout |-> "", retries |-> 0],
      [type |-> "script", command |-> <<>>, env |-> << <<"K", "v">> >>, timeout |-> "1s", retries |-> 1] }

ConfigSteps ==
    {[id |-> h.id, deps |-> h.deps] @@ b : h \in SortSteps, b \in StepBodies}

NoSort == /\ sortIn = <<>> /\ sortOut = <<>> /\ sortSeen = <<>>

NoBuild ==
    /\ buildIn = [projectName |-> "", profileName |-> "", steps |-> <<>>, configData |-> <<>>]
    /\ builds = <<>>
    /\ clock = 0

EmptyConfig == [version |-> 1, projectName |-> "", profiles |-> [name \in {} |-> {}]]

NoConfig ==
    /\ cfg = EmptyConfig
    /\ cfgNil = FALSE
    /\ validated = <<>>
    /\ resolveName = ""
    /\ resolved = <<>>

NoExec ==
    /\ plan = EmptyPlan
    /\ pNil = FALSE
    /\ opts = [Jobs |-> 0, FailFast |-> FALSE, DefaultTimeout |-> 0, OutDir |-> ""]
    /\ entered = FALSE
    /\ launched = 0
    /\ pc = <<>>
    /\ attempt = <<>>
    /\ last = <<>>
    /\ timeout = <<>>
    /\ results = <<>>
    /\ failedSteps = {}
    /\ resultsMu = 0
    /\ failedMu = 0
    /\ sem = 0
    /\ slot = {}
    /\ cancelled = FALSE
    /\ callerCancelled = FALSE
    /\ ret = <<>>

InitSort ==
    /\ sortIn \in SeqsUpTo(SortSteps, MaxSteps) \cup TestInputs
    /\ sortOut = <<>>
    /\ sortSeen = <<>>
    /\ NoBuild
    /\ NoExec
    /\ NoConfig

CallTopologicalSort ==
    /\ sortOut = <<>>
    /\ \E mapOrder \in Orderings(StepMapKeys(sortIn)) :
        /\ sortOut' = <<TopologicalSort(sortIn, mapOrder)>>
        /\ sortSeen' = mapOrder
    /\ UNCHANGED <<sortIn, buildVars, execVars, configVars>>

NextSort == CallTopologicalSort

SpecSort == InitSort /\ [][NextSort]_vars

InitBuild ==
    /\ buildIn \in [projectName : {"", "proj"}, profileName : {"", "default"},
                    steps : SeqsUpTo(ConfigSteps, MaxBuildSteps),
                    configData : SeqsUpTo({0, 255}, 1)]
    /\ builds = <<>>
    /\ clock = 0
    /\ NoSort
    /\ NoExec
    /\ NoConfig

\* One call of Build; time passes between calls.
CallBuild ==
    /\ Len(builds) < MaxBuilds
    /\ \E now \in clock..(clock + 1) :
        \E mapOrder \in Orderings(StepMapKeys(buildIn.steps)) :
            /\ builds' = Append(builds, Build(buildIn.projectName, buildIn.profileName,
                                              buildIn.steps, buildIn.configData, now, mapOrder))
            /\ clock' = now
    /\ UNCHANGED <<buildIn, sortVars, execVars, configVars>>

NextBuild == CallBuild

SpecBuild == InitBuild /\ [][NextBuild]_vars

(***************************************************************************)
(* One call of Execute.                                                    *)
(***************************************************************************)
\* The goroutines started so far, named by their index into p.Order.
Tasks == 1..launched

StepID(k) == plan.order[k]

Step(k) == StepMap(plan)[StepID(k)]

\* Mutant: the write drops the entries of the other steps.
Put_Forgetful(res, id, r) == [x \in {id} |-> r]

\* results[id] = r.
Put(res, id, r) == [x \in DOMAIN res \cup {id} |-> IF x = id THEN r ELSE res[x]]

\* The return values of Execute when it returns an error.
ExecuteError(msg) == [result |-> <<>>, err |-> msg]

\* Execute up to the launch loop: the nil check, MkdirAll (which may fail
\* when there is an OutDir), the maps, the channel and execCtx.
Enter ==
    /\ ret = <<>>
    /\ ~entered
    /\ \E made \in (IF opts.OutDir = "" THEN {TRUE} ELSE BOOLEAN) :
        IF pNil
        THEN ret' = <<ExecuteError("execute: plan is nil")>> /\ UNCHANGED entered
        ELSE IF ~made
        THEN ret' = <<ExecuteError("execute: create output directory")>> /\ UNCHANGED entered
        ELSE entered' = TRUE /\ UNCHANGED ret
    /\ UNCHANGED <<sortVars, buildVars, configVars, inputVars, lockVars, timeout, launched, pc, attempt, last, results, failedSteps,
                   sem, slot, cancelled, callerCancelled>>

\* The launch loop meets an id of p.Order that is not in stepMap: Execute
\* returns the error and its deferred cancel() runs; the goroutines launched
\* before go on.
LaunchMissing ==
    /\ ret = <<>>
    /\ entered
    /\ launched < Len(plan.order)
    /\ plan.order[launched + 1] \notin DOMAIN StepMap(plan)
    /\ ret' = <<ExecuteError("execute: step in order but not in steps")>>
    /\ cancelled' = TRUE
    /\ UNCHANGED <<sortVars, buildVars, configVars, inputVars, lockVars, entered, timeout, launched, pc, attempt, last, results,
                   failedSteps, sem, slot, callerCancelled>>

\* The launch loop: go func() for the next id of p.Order.
Launch ==
    /\ ret = <<>>
    /\ entered
    /\ launched < Len(plan.order)
    /\ plan.order[launched + 1] \in DOMAIN StepMap(plan)
    /\ launched' = launched + 1
    /\ pc' = [pc EXCEPT ![launched + 1] = "acquire"]
    /\ UNCHANGED <<sortVars, buildVars, configVars, inputVars, lockVars, entered, timeout, attempt, last, results, failedSteps, sem, slot,
                   cancelled, callerCancelled, ret>>

\* Mutant: the channel has room for one token more than Jobs.
AcquireSlot_OneMore(k) ==
    /\ pc[k] = "acquire"
    /\ sem < opts.Jobs + 1
    /\ sem' = sem + 1
    /\ slot' = slot \cup {k}
    /\ pc' = [pc EXCEPT ![k] = "poll"]
    /\ UNCHANGED <<sortVars, buildVars, configVars, inputVars, lockVars, entered, timeout, launched, attempt, last, results, failedSteps,
                   cancelled, callerCancelled, ret>>

\* select: case sem <- struct{}{}.
AcquireSlot(k) ==
    /\ pc[k] = "acquire"
    /\ sem < opts.Jobs
    /\ sem' = sem + 1
    /\ slot' = slot \cup {k}
    /\ pc' = [pc EXCEPT ![k] = "poll"]
    /\ UNCHANGED <<sortVars, buildVars, configVars, inputVars, lockVars, entered, timeout, launched, attempt, last, results, failedSteps,
                   cancelled, callerCancelled, ret>>

\* select: case <-execCtx.Done(), while waiting for a slot.
AcquireCancelled(k) ==
    /\ pc[k] = "acquire"
    /\ cancelled
    /\ pc' = [pc EXCEPT ![k] = "skipCancelled"]
    /\ UNCHANGED <<sortVars, buildVars, configVars, inputVars, lockVars, entered, timeout, launched, attempt, last, results, failedSteps, sem, slot,
                   cancelled, callerCancelled, ret>>

\* resultsMu.Lock() as a step of its own (lines 98, 113, 130, 155 and 170); a
\* goroutine asleep between two passes wakes up first.  An access that starts
\* with the mutex free takes it and gives it back within its own step.
LockResultsMu(k) ==
    /\ pc[k] \in {"poll", "sleep", "skipCancelled", "skipDepFailed", "record"}
    /\ resultsMu = 0
    /\ resultsMu' = k
    /\ pc' = [pc EXCEPT ![k] = IF @ = "sleep" THEN "poll" ELSE @]
    /\ UNCHANGED <<sortVars, buildVars, configVars, inputVars, failedMu, entered, timeout, launched, attempt, last, results,
                   failedSteps, sem, slot, cancelled, callerCancelled, ret>>

\* failedMu.Lock() as a step of its own (lines 144 and 176).
LockFailedMu(k) ==
    /\ pc[k] \in {"checkFailed", "track"}
    /\ failedMu = 0
    /\ failedMu' = k
    /\ UNCHANGED <<sortVars, buildVars, configVars, inputVars, resultsMu, entered, timeout, launched, pc, attempt, last, results,
                   failedSteps, sem, slot, cancelled, callerCancelled, ret>>

\* Mutant: the pass goes to sleep without resultsMu.Unlock().
PollDeps_KeepsLock(k) ==
    /\ pc[k] \in {"poll", "sleep"}
    /\ resultsMu \in {0, k}
    /\ pc' = [pc EXCEPT ![k] = IF AllDepsComplete(Step(k), results) THEN "checkFailed" ELSE "sleep"]
    /\ resultsMu' = IF AllDepsComplete(Step(k), results) THEN 0 ELSE k
    /\ UNCHANGED <<sortVars, buildVars, configVars, inputVars, failedMu, entered, timeout, launched, attempt, last, results, failedSteps, sem, slot,
                   cancelled, callerCancelled, ret>>

\* One pass of the dependency wait, under resultsMu.
PollDeps(k) ==
    /\ pc[k] \in {"poll", "sleep"}
    /\ resultsMu \in {0, k}
    /\ pc' = [pc EXCEPT ![k] = IF AllDepsComplete(Step(k), results) THEN "checkFailed" ELSE "sleep"]
    /\ resultsMu' = 0
    /\ UNCHANGED <<sortVars, buildVars, configVars, inputVars, failedMu, entered, timeout, launched, attempt, last, results, failedSteps, sem, slot,
                   cancelled, callerCancelled, ret>>

\* select: case <-execCtx.Done(), between two passes.
SleepCancelled(k) ==
    /\ pc[k] = "sleep"
    /\ cancelled
    /\ pc' = [pc EXCEPT ![k] = "skipCancelled"]
    /\ UNCHANGED <<sortVars, buildVars, configVars, inputVars, lockVars, entered, timeout, launched, attempt, last, results, failedSteps, sem, slot,
                   cancelled, callerCancelled, ret>>

\* Mutant: the cancelled-skip path returns without writing a result.
RecordCancelled_NoWrite(k) ==
    /\ pc[k] = "skipCancelled"
    /\ resultsMu \in {0, k}
    /\ pc' = [pc EXCEPT ![k] = "exit"]
    /\ resultsMu' = 0
    /\ UNCHANGED <<sortVars, buildVars, configVars, inputVars, failedMu, entered, timeout, launched, attempt, last, results, failedSteps,
                   sem, slot, cancelled, callerCancelled, ret>>

\* The cancelled-skip result, written under resultsMu.
RecordCancelled(k) ==
    /\ pc[k] = "skipCancelled"
    /\ resultsMu \in {0, k}
    /\ results' = Put(results, StepID(k), CancelledSkip(StepID(k)))
    /\ pc' = [pc EXCEPT ![k] = "exit"]
    /\ resultsMu' = 0
    /\ UNCHANGED <<sortVars, buildVars, configVars, inputVars, failedMu, entered, timeout, launched, attempt, last, failedSteps, sem, slot,
                   cancelled, callerCancelled, ret>>

\* The failed-dependency check, under failedMu; executeStep is entered after it.
CheckDepFailed(k) ==
    /\ pc[k] = "checkFailed"
    /\ failedMu \in {0, k}
    /\ IF DepFailed(Step(k), failedSteps)
       THEN /\ pc' = [pc EXCEPT ![k] = "skipDepFailed"]
            /\ UNCHANGED attempt
       ELSE /\ pc' = [pc EXCEPT ![k] = "starting"]
            /\ attempt' = [attempt EXCEPT ![k] = 1]
    /\ failedMu' = 0
    /\ UNCHANGED <<sortVars, buildVars, configVars, inputVars, resultsMu, entered, timeout, launched, last, results, failedSteps, sem, slot,
                   cancelled, callerCancelled, ret>>

\* Mutant: the dependency-failed path returns without writing a result.
RecordDepFailed_NoWrite(k) ==
    /\ pc[k] = "skipDepFailed"
    /\ resultsMu \in {0, k}
    /\ pc' = [pc EXCEPT ![k] = "exit"]
    /\ resultsMu' = 0
    /\ UNCHANGED <<sortVars, buildVars, configVars, inputVars, failedMu, entered, timeout, launched, attempt, last, results, failedSteps,
                   sem, slot, cancelled, callerCancelled, ret>>

\* The dependency-failed result, written under resultsMu.
RecordDepFailed(k) ==
    /\ pc[k] = "skipDepFailed"
    /\ resultsMu \in {0, k}
    /\ results' = Put(results, StepID(k), DependencySkip(StepID(k)))
    /\ pc' = [pc EXCEPT ![k] = "exit"]
    /\ resultsMu' = 0
    /\ UNCHANGED <<sortVars, buildVars, configVars, inputVars, failedMu, entered, timeout, launched, attempt, last, failedSteps, sem, slot,
                   cancelled, callerCancelled, ret>>

\* executeStepAttempt up to the start of the process: the checks of the step,
\* the log file (whose creation may fail when there is an OutDir), the
\* timeout, and Start (the program lookup, then the context).
AttemptStart(k) ==
    /\ pc[k] = "starting"
    /\ \E created \in (IF opts.OutDir = "" THEN {TRUE} ELSE BOOLEAN) :
        LET step == Step(k)
            n == attempt[k]
            before == IF ConfigFailure(step, n) # <<>> THEN ConfigFailure(step, n)
                      ELSE IF ~created THEN <<LogFileFailure(step, n)>>
                      ELSE TimeoutFailure(step, n)
            early == IF before # <<>> THEN before
                     ELSE IF step.command[1] = "missing" THEN <<LaunchFailure(step, n)>>
                     ELSE IF cancelled THEN <<StartCancelled(step, n)>>
                     ELSE <<>>
        IN  /\ timeout' = [timeout EXCEPT ![k] = IF before = <<>> THEN AttemptTimeout(step, opts) ELSE 0]
            /\ IF early = <<>>
               THEN /\ pc' = [pc EXCEPT ![k] = "running"]
                    /\ UNCHANGED last
               ELSE /\ last' = [last EXCEPT ![k] = early]
                    /\ pc' = [pc EXCEPT ![k] = AfterAttempt(step, early[1], cancelled)]
    /\ UNCHANGED <<sortVars, buildVars, configVars, inputVars, lockVars, entered, launched, attempt, results, failedSteps, sem, slot,
                   cancelled, callerCancelled, ret>>

\* The process ends; executeStep looks at the result and at ctx.Err().
AttemptEnd(k) ==
    /\ pc[k] = "running"
    /\ \E result \in RunOutcomes(Step(k), attempt[k], cancelled, timeout[k]) :
        /\ last' = [last EXCEPT ![k] = <<result>>]
        /\ pc' = [pc EXCEPT ![k] = AfterAttempt(Step(k), result, cancelled)]
    /\ UNCHANGED <<sortVars, buildVars, configVars, inputVars, lockVars, entered, timeout, launched, attempt, results, failedSteps, sem, slot,
                   cancelled, callerCancelled, ret>>

\* The delay before a retry: either arm of the select leaves the select only,
\* and the loop goes on to the next attempt.
Pause(k) ==
    /\ pc[k] = "pause"
    /\ attempt' = [attempt EXCEPT ![k] = attempt[k] + 1]
    /\ pc' = [pc EXCEPT ![k] = "starting"]
    /\ UNCHANGED <<sortVars, buildVars, configVars, inputVars, lockVars, entered, timeout, launched, last, results, failedSteps, sem, slot,
                   cancelled, callerCancelled, ret>>

\* results[stepID] = result, under resultsMu.
RecordResult(k) ==
    /\ pc[k] = "record"
    /\ resultsMu \in {0, k}
    /\ results' = Put(results, StepID(k), last[k][1])
    /\ pc' = [pc EXCEPT ![k] = IF last[k][1].status = "failed" THEN "track" ELSE "exit"]
    /\ resultsMu' = 0
    /\ UNCHANGED <<sortVars, buildVars, configVars, inputVars, failedMu, entered, timeout, launched, attempt, last, failedSteps, sem, slot,
                   cancelled, callerCancelled, ret>>

\* Mutant: cancel() is called after every failure, whatever FailFast says.
TrackFailure_AlwaysCancel(k) ==
    /\ pc[k] = "track"
    /\ failedMu \in {0, k}
    /\ failedSteps' = failedSteps \cup {StepID(k)}
    /\ pc' = [pc EXCEPT ![k] = "cancel"]
    /\ failedMu' = 0
    /\ UNCHANGED <<sortVars, buildVars, configVars, inputVars, resultsMu, entered, timeout, launched, attempt, last, results, sem, slot,
                   cancelled, callerCancelled, ret>>

\* failedSteps[stepID] = true, under failedMu.
TrackFailure(k) ==
    /\ pc[k] = "track"
    /\ failedMu \in {0, k}
    /\ failedSteps' = failedSteps \cup {StepID(k)}
    /\ pc' = [pc EXCEPT ![k] = IF opts.FailFast THEN "cancel" ELSE "exit"]
    /\ failedMu' = 0
    /\ UNCHANGED <<sortVars, buildVars, configVars, inputVars, resultsMu, entered, timeout, launched, attempt, last, results, sem, slot,
                   cancelled, callerCancelled, ret>>

\* cancel() of the fail-fast branch.
FailFastCancel(k) ==
    /\ pc[k] = "cancel"
    /\ cancelled' = TRUE
    /\ pc' = [pc EXCEPT ![k] = "exit"]
    /\ UNCHANGED <<sortVars, buildVars, configVars, inputVars, lockVars, entered, timeout, launched, attempt, last, results, failedSteps, sem, slot,
                   callerCancelled, ret>>

\* The deferred calls of the goroutine: <-sem if it was registered, wg.Done().
TaskReturn(k) ==
    /\ pc[k] = "exit"
    /\ sem' = IF k \in slot THEN sem - 1 ELSE sem
    /\ slot' = slot \ {k}
    /\ pc' = [pc EXCEPT ![k] = "done"]
    /\ UNCHANGED <<sortVars, buildVars, configVars, inputVars, lockVars, entered, timeout, launched, attempt, last, results, failedSteps,
                   cancelled, callerCancelled, ret>>

\* wg.Wait() returns, the results are collected in p.Order, Execute returns
\* and its deferred cancel() runs.
WaitAndCollect ==
    /\ ret = <<>>
    /\ entered
    /\ launched = Len(plan.order)
    /\ \A k \in Tasks : pc[k] = "done"
    /\ ret' = <<CollectResults(plan.order, results, <<>>, "success")>>
    /\ cancelled' = TRUE
    /\ UNCHANGED <<sortVars, buildVars, configVars, inputVars, lockVars, entered, timeout, launched, pc, attempt, last, results, failedSteps, sem, slot,
                   callerCancelled>>

\* The caller cancels ctx, the parent of execCtx (without effect on execCtx
\* once that is done).
CallerCancel ==
    /\ ret = <<>>
    /\ ~cancelled
    /\ callerCancelled' = TRUE
    /\ cancelled' = TRUE
    /\ UNCHANGED <<sortVars, buildVars, configVars, inputVars, lockVars, entered, timeout, launched, pc, attempt, last, results, failedSteps, sem, slot, ret>>

\* The step lists Execute's plans are built from: step i is named IdList[i]
\* and depends on any of the steps before it; every step runs a program that
\* may exit with 0 or not; the first step has up to MaxRetries retries.
ExecStepsAt(i, retries) ==
    [id : {IdList[i]}, deps : SubsetSeqs([j \in 1..(i - 1) |-> IdList[j]]), type : {"shell"},
     command : {<<"cmd">>}, env : {<<>>}, timeout : {""}, retries : {IF i = 1 THEN retries ELSE 0}]

RECURSIVE ExecListsFrom(_, _, _)
ExecListsFrom(i, n, retries) ==
    IF i > n THEN {<<>>}
    ELSE {<<h>> \o t : h \in ExecStepsAt(i, retries), t \in ExecListsFrom(i + 1, n, retries)}

\* The plan of TestExecute_DependencySkip: "failing" runs false, "dependent"
\* depends on it.
TestDependencySkip ==
    << [id |-> <<1>>, deps |-> <<>>, type |-> "shell", command |-> <<"false">>,
        env |-> <<>>, timeout |-> "", retries |-> 0],
       [id |-> <<2>>, deps |-> << <<1>> >>, type |-> "shell", command |-> <<"true">>,
        env |-> <<>>, timeout |-> "", retries |-> 0] >>

ExecStepLists ==
    UNION {ExecListsFrom(1, n, retries) : n \in 0..MaxExecSteps, retries \in 0..MaxRetries}
        \cup {TestDependencySkip}

\* A single step of every kind executeStepAttempt tells apart: its type, its
\* command (none, a program that runs, one that exits with 2, one that never
\* ends by itself, one that is not found), its
\* timeout string (absent, zero, positive, malformed) and its retries.
SingleStepLists ==
    {<<st>> : st \in [id : {<<1>>}, deps : {<<>>}, type : {"shell", "script"},
                      command : {<<>>, <<"cmd">>, <<"exit2">>, <<"forever">>, <<"missing">>}, env : {<<>>},
                      timeout : {"", "0s", "1s", "soon"}, retries : (-1)..MaxRetries]}

\* The plan Build makes of a step list.
PlanOf(steps) == Build("proj", "default", steps, <<>>, 0, FirstOccurrences(steps, {})).plan[1]

\* Plans whose order ends with an id that no step carries.
MissingStepPlans ==
    {[PlanOf(steps) EXCEPT !.order = Append(@, <<4>>)] :
        steps \in UNION {ExecListsFrom(1, n, 0) : n \in 0..Min(2, MaxExecSteps)}}

\* Options without a default timeout and without an output directory.
PlainOptions == [Jobs : 1..MaxJobs, FailFast : BOOLEAN, DefaultTimeout : {0}, OutDir : {""}]

\* Options with and without a default timeout (in seconds) and an output directory.
AllOptions == [Jobs : 1..MaxJobs, FailFast : BOOLEAN, DefaultTimeout : {0, 10}, OutDir : {"", "out"}]

\* The arguments of Execute: a plan of several plain steps, a plan of one step
\* of any kind under any options, a plan with a missing step, or no plan.
ExecuteInputs ==
    {[plan |-> PlanOf(steps), pNil |-> FALSE, opts |-> o] : steps \in ExecStepLists, o \in PlainOptions}
    \cup {[plan |-> PlanOf(steps), pNil |-> FALSE, opts |-> o] : steps \in SingleStepLists, o \in AllOptions}
    \cup {[plan |-> p, pNil |-> FALSE, opts |-> o] : p \in MissingStepPlans, o \in PlainOptions}
    \cup {[plan |-> EmptyPlan, pNil |-> TRUE, opts |-> o] : o \in AllOptions}

InitExec ==
    /\ \E input \in ExecuteInputs :
        /\ plan = input.plan
        /\ pNil = input.pNil
        /\ opts = input.opts
    /\ entered = FALSE
    /\ timeout = [k \in 1..Len(plan.order) |-> 0]
    /\ launched = 0
    /\ pc = [k \in 1..Len(plan.order) |-> "unborn"]
    /\ attempt = [k \in 1..Len(plan.order) |-> 0]
    /\ last = [k \in 1..Len(plan.order) |-> <<>>]
    /\ results = <<>>
    /\ failedSteps = {}
    /\ resultsMu = 0
    /\ failedMu = 0
    /\ sem = 0
    /\ slot = {}
    /\ cancelled = FALSE
    /\ callerCancelled = FALSE
    /\ ret = <<>>
    /\ NoSort
    /\ NoBuild
    /\ NoConfig

NextExec ==
    \/ Enter
    \/ LaunchMissing
    \/ Launch
    \/ WaitAndCollect
    \/ CallerCancel
    \/ \E k \in Tasks : AcquireSlot(k)
    \/ \E k \in Tasks : AcquireCancelled(k)
    \/ \E k \in Tasks : PollDeps(k)
    \/ \E k \in Tasks : SleepCancelled(k)
    \/ \E k \in Tasks : RecordCancelled(k)
    \/ \E k \in Tasks : CheckDepFailed(k)
    \/ \E k \in Tasks : RecordDepFailed(k)
    \/ \E k \in Tasks : AttemptStart(k)
    \/ \E k \in Tasks : AttemptEnd(k)
    \/ \E k \in Tasks : Pause(k)
    \/ \E k \in Tasks : RecordResult(k)
    \/ \E k \in Tasks : TrackFailure(k)
    \/ \E k \in Tasks : FailFastCancel(k)
    \/ \E k \in Tasks : TaskReturn(k)

SpecExec == InitExec /\ [][NextExec]_vars

\* Whatever goroutine k can do next.
TaskStep(k) ==
    /\ k \in Tasks
    /\ \/ AcquireSlot(k) \/ AcquireCancelled(k) \/ PollDeps(k) \/ SleepCancelled(k)
       \/ RecordCancelled(k) \/ CheckDepFailed(k) \/ RecordDepFailed(k) \/ AttemptStart(k)
       \/ AttemptEnd(k) \/ Pause(k) \/ RecordResult(k) \/ TrackFailure(k) \/ FailFastCancel(k)
       \/ TaskReturn(k)

\* The Go scheduler runs every goroutine that can run, timers fire, and every
\* process started for an attempt ends; nothing makes the caller cancel.
FairExec ==
    /\ WF_vars(Enter)
    /\ WF_vars(LaunchMissing)
    /\ WF_vars(Launch)
    /\ WF_vars(WaitAndCollect)
    /\ \A k \in 1..(MaxExecSteps + 1) : WF_vars(TaskStep(k))

\* The fair specification starts as SpecExec does, with retries only in the
\* plans of up to MaxFairRetrySteps steps.
InitExecFair ==
    /\ InitExec
    /\ Len(plan.steps) <= MaxFairRetrySteps \/ plan.steps[1].retries = 0

SpecExecFair == InitExecFair /\ [][NextExec]_vars /\ FairExec

\* Execute with the two Lock() calls as steps of their own, for the plans of
\* up to MaxLockedSteps steps.
InitExecLocks ==
    /\ InitExec
    /\ Len(plan.steps) <= MaxLockedSteps

NextExecLocks ==
    \/ NextExec
    \/ \E k \in Tasks : LockResultsMu(k)
    \/ \E k \in Tasks : LockFailedMu(k)

SpecExecLocks == InitExecLocks /\ [][NextExecLocks]_vars

(***************************************************************************)
(* Validate and ResolveProfile on one configuration.                       *)
(***************************************************************************)
ProfileNameList == <<"base", "ci", "release", "nightly">>

ProfileNames(n) == {ProfileNameList[i] : i \in 1..Min(n, Len(ProfileNameList))}

\* A config.Step; env, timeout and retries are only copied.
ConfigStep(id, type, command, deps) ==
    [id |-> id, type |-> type, command |-> command, deps |-> deps,
     env |-> <<>>, timeout |-> "", retries |-> 0]

\* Steps of every kind validateProfile tells apart.
DetailSteps ==
    {ConfigStep(id, type, command, deps) :
        id \in {<<>>, IdList[1], IdList[2]}, type \in {"shell", "script", "docker"},
        command \in {<<>>, <<"cmd">>}, deps \in {<<>>, <<IdList[1]>>, <<IdList[2]>>}}

\* Valid shell steps of a profile; the command names the profile that
\* declares the step.
OwnSteps(name, depLists) ==
    {ConfigStep(id, "shell", <<name>>, deps) : id \in {IdList[1], IdList[2]}, deps \in depLists}

\* The profiles of a configuration of n profiles: the steps of each are valid
\* by themselves, and extends is empty or one of extendsNames.
InheritProfiles(n, extendsNames, depLists, maxSteps) ==
    [ProfileNames(n) -> [extends : {""} \cup extendsNames,
                         steps : SeqsUpTo(OwnSteps("", depLists), maxSteps)]]

\* The steps of every profile carry the profile's name as their command.
Stamp(profiles) ==
    [name \in DOMAIN profiles |->
        [profiles[name] EXCEPT !.steps =
            [i \in 1..Len(profiles[name].steps) |-> [profiles[name].steps[i] EXCEPT !.command = <<name>>]]]]

\* One profile with steps of every kind.
DetailConfigs ==
    \E e \in {"", "base", "ci"}, steps \in SeqsUpTo(DetailSteps, MaxProfileSteps) :
        cfg = [version |-> 1, projectName |-> "proj",
               profiles |-> [name \in {"base"} |-> [extends |-> e, steps |-> steps]]]

\* The header fields right and wrong, with and without a profile.
HeaderConfigs ==
    \E v \in {1, 2}, n \in {"", "proj"} :
        \E ps \in {EmptyConfig.profiles, [name \in {"base"} |-> [extends |-> "", steps |-> <<>>]]} :
            cfg = [version |-> v, projectName |-> n, profiles |-> ps]

\* Two profiles with deps, extends possibly naming no profile.
TwoProfileConfigs ==
    \E ps \in InheritProfiles(2, ProfileNames(3), {<<>>, <<IdList[1]>>, <<IdList[2]>>},
                               Min(2, MaxProfileSteps)) :
        cfg = [version |-> 1, projectName |-> "proj", profiles |-> Stamp(ps)]

\* Up to MaxProfiles profiles without deps.
ManyProfileConfigs ==
    \E ps \in InheritProfiles(MaxProfiles, ProfileNames(MaxProfiles), {<<>>}, Min(2, MaxProfileSteps)) :
        cfg = [version |-> 1, projectName |-> "proj", profiles |-> Stamp(ps)]

InitConfig ==
    /\ \/ cfgNil = FALSE /\ (DetailConfigs \/ HeaderConfigs \/ TwoProfileConfigs \/ ManyProfileConfigs)
       \/ cfgNil = TRUE /\ cfg = EmptyConfig
    /\ validated = <<>>
    /\ resolveName = ""
    /\ resolved = <<>>
    /\ NoSort
    /\ NoBuild
    /\ NoExec

CallValidate ==
    /\ validated = <<>>
    /\ \E mapOrder \in Orderings(DOMAIN cfg.profiles) :
        validated' = <<Validate(cfg, cfgNil, mapOrder)>>
    /\ UNCHANGED <<cfg, cfgNil, resolveName, resolved, sortVars, buildVars, execVars>>

CallResolveProfile ==
    /\ resolved = <<>>
    /\ \E name \in ProfileNames(MaxProfiles) :
        /\ resolveName' = name
        /\ resolved' = <<ResolveProfile(cfg, cfgNil, name)>>
    /\ UNCHANGED <<cfg, cfgNil, validated, sortVars, buildVars, execVars>>

NextConfig == CallValidate \/ CallResolveProfile

SpecConfig == InitConfig /\ [][NextConfig]_vars

(***************************************************************************)
(* Properties of TopologicalSort.                                          *)
(***************************************************************************)
\* The ids a step id depends on directly (over every step carrying that id).
DepsOf(steps, id) == UNION {Range(steps[i].deps) : i \in {j \in 1..Len(steps) : steps[j].id = id}}

RECURSIVE CloseDeps(_, _)
CloseDeps(steps, S) ==
    LET T == S \cup UNION {DepsOf(steps, x) : x \in S}
    IN  IF T = S THEN S ELSE CloseDeps(steps, T)

\* Everything id depends on, directly or not.
Ancestors(steps, id) == CloseDeps(steps, DepsOf(steps, id))

HasCycle(steps) == \E id \in StepMapKeys(steps) : id \in Ancestors(steps, id)

UniqueIds(steps) == \A i, j \in 1..Len(steps) : i # j => steps[i].id # steps[j].id

DepsExist(steps) == MentionedIds(steps) \subseteq StepMapKeys(steps)

Sorted == sortOut # <<>>

Positions(order, id) == {k \in 1..Len(order) : order[k] = id}

\* C1: for a step list with unique ids, existing dependency ids and no cycle,
\* TopologicalSort returns no error and an order that holds every step id exactly
\* once (as long as the input, empty for the empty list) with every step after
\* all of its deps.
C1_ValidLinearization ==
    (Sorted /\ UniqueIds(sortIn) /\ DepsExist(sortIn) /\ ~HasCycle(sortIn)) =>
        LET r == sortOut[1]
        IN  /\ r.err = ""
            /\ ~r.isNil
            /\ Len(r.order) = Len(sortIn)
            /\ \A i \in 1..Len(sortIn) :
                /\ Cardinality(Positions(r.order, sortIn[i].id)) = 1
                /\ \A d \in Range(sortIn[i].deps) :
                    \A pd \in Positions(r.order, d) :
                        \A ps \in Positions(r.order, sortIn[i].id) : pd < ps

C1_Witness ==
    /\ Sorted /\ UniqueIds(sortIn) /\ DepsExist(sortIn) /\ ~HasCycle(sortIn)
    /\ Len(sortIn) = 3
    /\ \E i \in 1..3 : Cardinality(Range(sortIn[i].deps)) = 2
    /\ Len(sortOut[1].order) = 3

\* C2: for a step list whose dependency graph has a cycle (a self dependency
\* included), TopologicalSort returns an error and a nil order.
C2_CycleIsError ==
    (Sorted /\ HasCycle(sortIn)) =>
        (sortOut[1].err # "" /\ sortOut[1].isNil /\ sortOut[1].order = <<>>)

C2_Witness ==
    /\ Sorted /\ HasCycle(sortIn) /\ UniqueIds(sortIn) /\ DepsExist(sortIn)
    /\ Len(sortIn) = 3
    /\ \E i \in 1..3 : sortIn[i].deps = <<>>
    /\ \A i \in 1..3 : sortIn[i].id \notin Range(sortIn[i].deps)
    /\ sortOut[1].err # ""

\* The ids not among the first k-1 of the order whose deps all are.
ReadyAt(steps, order, k) ==
    LET done == {order[j] : j \in 1..(k - 1)}
    IN  {id \in StepMapKeys(steps) \ done : DepsOf(steps, id) \subseteq done}

\* C3: in a returned order, the id at every position is the lexicographically
\* smallest id among the steps not yet output whose deps have all been output.
C3_SmallestReadyFirst ==
    (Sorted /\ sortOut[1].err = "") =>
        LET order == sortOut[1].order
        IN  \A k \in 1..Len(order) :
                /\ order[k] \in ReadyAt(sortIn, order, k)
                /\ \A other \in ReadyAt(sortIn, order, k) : ~LexLess(other, order[k])

\* The diamond of the tests, and a list in which a step that becomes ready
\* later sorts before one that was ready from the start.
C3_Witness ==
    /\ Sorted
    /\ \/ sortIn = TestDiamond /\ sortOut[1].order = << <<1>>, <<2>>, <<3>>, <<4>> >>
       \/ /\ sortOut[1].err = "" /\ Len(sortIn) = 3
          /\ \E i, j \in 1..3 :
                /\ sortIn[i].deps # <<>> /\ sortIn[j].deps = <<>>
                /\ sortIn[j].id \notin Range(sortIn[i].deps)
                /\ LexLess(sortIn[i].id, sortIn[j].id)

\* Every reordering of a sequence.
Reorderings(seq) == {[i \in 1..Len(seq) |-> seq[p[i]]] : p \in Orderings(1..Len(seq))}

\* Every list that holds the same steps in the same sequence, each with its
\* deps in another sequence.
RECURSIVE DepsRearranged(_)
DepsRearranged(steps) ==
    IF steps = <<>> THEN {<<>>}
    ELSE {<<[id |-> Head(steps).id, deps |-> d]>> \o t :
            d \in Reorderings(Head(steps).deps), t \in DepsRearranged(Tail(steps))}

\* Every step list that holds the same steps in another sequence, each with
\* its deps in another sequence.
Rearrangements(steps) == UNION {DepsRearranged(r) : r \in Reorderings(steps)}

\* C4: the result depends only on the set of steps: every rearrangement of the
\* input (steps and deps lists), sorted under its own map iteration order, gives
\* the result the call gave under the iteration order it saw.
C4_OrderIndependent ==
    Sorted =>
        \A q \in Rearrangements(sortIn) :
            TopologicalSort(q, FirstOccurrences(q, {})) = sortOut[1]

C4_Witness ==
    /\ Sorted /\ sortOut[1].err = "" /\ Len(sortIn) = 3
    /\ sortSeen # FirstOccurrences(sortIn, {})
    /\ sortOut[1].order # FirstOccurrences(sortIn, {})
    /\ Cardinality(Rearrangements(sortIn)) >= 12

(***************************************************************************)
(* Properties of Build.                                                    *)
(***************************************************************************)
HasPlan(b) == b.plan # <<>>

\* C5: two calls of Build with the same projectName, profileName, steps and
\* configBytes return plans with the same config_hash, the same order and the
\* same steps, whatever the time of each call.
C5_BuildDeterministic ==
    \A i, j \in 1..Len(builds) :
        (HasPlan(builds[i]) /\ HasPlan(builds[j])) =>
            /\ builds[i].plan[1].config_hash = builds[j].plan[1].config_hash
            /\ builds[i].plan[1].order = builds[j].plan[1].order
            /\ builds[i].plan[1].steps = builds[j].plan[1].steps

C5_Witness ==
    /\ Len(builds) = 2 /\ HasPlan(builds[1]) /\ HasPlan(builds[2])
    /\ builds[1].plan[1].created_at # builds[2].plan[1].created_at
    /\ Len(buildIn.steps) = 2
    /\ builds[1].plan[1].order # <<buildIn.steps[1].id, buildIn.steps[2].id>>
    /\ buildIn.configData # <<>>

\* Whether TopologicalSort fails on the steps Build hands to it.
SortFails(steps) ==
    \E mapOrder \in Orderings(StepMapKeys(steps)) :
        TopologicalSort(ToPlanSteps(steps), mapOrder).err # ""

\* C6: Build returns an error and a nil Plan when projectName is empty, when
\* profileName is empty or when TopologicalSort fails; a call that returns an
\* error returns no Plan.
C6_BuildErrors ==
    \A i \in 1..Len(builds) :
        /\ (buildIn.projectName = "" \/ buildIn.profileName = "" \/ SortFails(buildIn.steps))
              => (builds[i].err # "" /\ ~HasPlan(builds[i]))
        /\ builds[i].err # "" => ~HasPlan(builds[i])

C6_Witness ==
    /\ Len(builds) >= 1 /\ builds[1].err # "" /\ ~HasPlan(builds[1])
    /\ buildIn.projectName # "" /\ buildIn.profileName = ""
    /\ Len(buildIn.steps) = 2 /\ ~SortFails(buildIn.steps)

(***************************************************************************)
(* Properties of Execute.                                                  *)
(***************************************************************************)
Returned == ret # <<>>

\* The goroutines that are inside executeStep.
Executing == {k \in Tasks : pc[k] \in {"starting", "running", "pause"}}

HasResult(id) == id \in DOMAIN results

\* C7: for the plan A -> B in which A's command always fails, B's recorded
\* result is skipped with error "dependency failed", with failFast off and on.
C7_DependentSkipped ==
    (Returned /\ ~callerCancelled /\ plan.steps = ToPlanSteps(TestDependencySkip)) =>
        /\ HasResult(<<2>>)
        /\ results[<<2>>].status = "skipped"
        /\ results[<<2>>].error = "dependency failed"

\* C8: a step with a direct dependency whose recorded status is failed never
\* makes an attempt: it is never inside executeStep and its result has attempt 0.
C8_NoAttemptAfterFailedDep ==
    \A k \in Tasks :
        \A d \in Range(Step(k).deps) :
            (HasResult(d) /\ results[d].status = "failed") =>
                /\ attempt[k] = 0
                /\ HasResult(StepID(k)) => results[StepID(k)].attempt = 0

\* C9: no step is inside executeStep before every id of its deps has an entry
\* in the results map.
C9_RunsAfterDeps ==
    \A k \in Executing : \A d \in Range(Step(k).deps) : HasResult(d)

C9_Witness ==
    \E k \in Tasks :
        /\ pc[k] = "running"
        /\ Cardinality(Range(Step(k).deps)) = 2
        /\ \A d \in Range(Step(k).deps) : HasResult(d) /\ results[d].status = "success"

\* C10: at every moment the number of steps executing their command is at most
\* Options.Jobs.
C10_ConcurrencyBound == Cardinality(Executing) <= opts.Jobs

C10_Witness ==
    /\ opts.Jobs = 2
    /\ Cardinality(Executing) = 2
    /\ \E k \in Tasks : pc[k] = "acquire" /\ Step(k).deps = <<>>

\* The tasks that have found a dependency without a result and wait to look again.
WaitingForDeps == {k \in Tasks : pc[k] = "sleep" /\ ~AllDepsComplete(Step(k), results)}

\* The tasks that wait for a slot and have every dependency's result.
ReadyForSlot == {k \in Tasks : pc[k] = "acquire" /\ AllDepsComplete(Step(k), results)}

\* C11: a task that is waiting for its dependencies holds no slot of the
\* semaphore, and a ready step is never kept from starting while a waiting
\* task holds a slot.
C11_WaitingHoldsNoSlot ==
    /\ \A k \in WaitingForDeps : k \notin slot
    /\ (ReadyForSlot # {} /\ sem = opts.Jobs) => slot \cap WaitingForDeps = {}

\* Execute has returned a result in which every step of the plan is terminal.
AllTerminal ==
    /\ Returned
    /\ ret[1].err = "" =>
        \A id \in Range(plan.order) : HasResult(id) /\ results[id].status \in {"success", "failed", "skipped"}

\* No step of the plan runs a program that goes on until it is killed.
AllCommandsEnd == \A i \in 1..Len(plan.steps) : plan.steps[i].command # <<"forever">>

\* C12: under fair scheduling, with every attempt terminating, Execute
\* eventually returns with every step in a terminal state unless the caller
\* cancels, for every number of jobs from 1 on.
C12_EventuallyReturns == AllCommandsEnd => <>(callerCancelled \/ AllTerminal)

\* The Steps of the ExecutionResult that Execute returned.
ReturnedSteps == ret[1].result[1].steps

HasExecutionResult == Returned /\ ret[1].result # <<>>

\* C13: when Execute returns a result, its Steps hold exactly one StepResult
\* per id of plan.Order, in the sequence of plan.Order, whatever the order in
\* which the steps finished.
C13_ResultsInPlanOrder ==
    HasExecutionResult =>
        /\ Len(ReturnedSteps) = Len(plan.order)
        /\ \A i \in 1..Len(plan.order) : ReturnedSteps[i].id = plan.order[i]

\* The second step of the order failed and its fail-fast cancellation skipped
\* the first one: the first step's result was written after the second's.
C13_Witness ==
    /\ HasExecutionResult
    /\ ~callerCancelled
    /\ Len(plan.order) = 2
    /\ ReturnedSteps[1].id = plan.order[1]
    /\ ReturnedSteps[1].error = "execution cancelled"
    /\ ReturnedSteps[2].status = "failed"

\* C14: the overall status is "failed" exactly when some StepResult has status
\* failed and "success" otherwise; skipped steps do not make it failed.
C14_OverallStatus ==
    HasExecutionResult =>
        ret[1].result[1].status =
            (IF \E i \in 1..Len(ReturnedSteps) : ReturnedSteps[i].status = "failed"
             THEN "failed" ELSE "success")

C14_Witness ==
    /\ HasExecutionResult
    /\ ret[1].result[1].status = "success"
    /\ \E i \in 1..Len(ReturnedSteps) : ReturnedSteps[i].status = "skipped"
    /\ \E i \in 1..Len(ReturnedSteps) : ReturnedSteps[i].status = "success"

\* Every id of the order is the id of a step.
WellFormed(p) == Range(p.order) \subseteq DOMAIN StepMap(p)

\* C15: Execute returns an error only for a nil plan, an order id absent from
\* the steps, a failure to create the output directory or a missing result;
\* for a non-nil well-formed plan whose directory could be made it returns an
\* ExecutionResult and a nil error, whatever failed, was skipped or cancelled.
C15_ErrorOnlyStructural ==
    Returned =>
        /\ ret[1].err \in {"", "execute: plan is nil", "execute: create output directory",
                            "execute: step in order but not in steps", "execute: missing result for step"}
        /\ ret[1].err = "execute: plan is nil" => pNil
        /\ ret[1].err = "execute: create output directory" => opts.OutDir # ""
        /\ ret[1].err = "execute: step in order but not in steps" => ~WellFormed(plan)
        /\ (~pNil /\ WellFormed(plan) /\ ret[1].err # "execute: create output directory") =>
                ret[1].err = "" /\ ret[1].result # <<>>
        /\ ret[1].err # "" => ret[1].result = <<>>

C15_Witness ==
    /\ HasExecutionResult
    /\ ret[1].err = ""
    /\ callerCancelled
    /\ \E i \in 1..Len(ReturnedSteps) : ReturnedSteps[i].status = "failed"
    /\ \E i \in 1..Len(ReturnedSteps) : ReturnedSteps[i].error = "dependency failed"
    /\ \E i \in 1..Len(ReturnedSteps) : ReturnedSteps[i].error = "execution cancelled"

\* Where a goroutine stands once executeStep has returned.
AfterExecuteStep == {"record", "track", "cancel", "exit", "done"}

\* C16: an attempt that succeeds ends the retry loop: after k - 1 failed
\* attempts and a successful attempt k no further attempt is made, and the
\* StepResult has status success and attempt k.
C16_SuccessEndsRetries ==
    \A k \in Tasks :
        (last[k] # <<>> /\ last[k][1].status = "success") =>
            /\ pc[k] \in {"record", "exit", "done"}
            /\ last[k][1].attempt = attempt[k]
            /\ attempt[k] <= MaxAttempts(Step(k))
            /\ pc[k] \in {"exit", "done"} =>
                    /\ HasResult(StepID(k))
                    /\ results[StepID(k)].status = "success"
                    /\ results[StepID(k)].attempt = attempt[k]

\* retries = 1, the first attempt failed, the second succeeded.
C16_Witness ==
    \E k \in Tasks :
        /\ ~cancelled
        /\ pc[k] = "done"
        /\ Step(k).retries = 1
        /\ results[StepID(k)].status = "success"
        /\ results[StepID(k)].attempt = 2

\* max(retries, 0) + 1.
AttemptBudget(step) == (IF step.retries > 0 THEN step.retries ELSE 0) + 1

\* C17: an executed step makes at least 1 and at most max(retries, 0) + 1
\* attempts, numbered consecutively from 1, each after the one before has
\* failed; without cancellation its status is failed only when all of them
\* have failed, and its attempt is then max(retries, 0) + 1.
C17_AttemptBudget ==
    \A k \in Tasks :
        /\ attempt[k] <= AttemptBudget(Step(k))
        /\ pc[k] \in {"starting", "running", "pause"} \cup AfterExecuteStep /\ last[k] # <<>> => attempt[k] >= 1
        /\ pc[k] \in {"starting", "running"} =>
                /\ attempt[k] >= 1
                /\ IF attempt[k] = 1 THEN last[k] = <<>>
                   ELSE last[k][1].attempt = attempt[k] - 1 /\ last[k][1].status = "failed"
        /\ pc[k] = "pause" => last[k][1].attempt = attempt[k] /\ last[k][1].status = "failed"
        /\ (HasResult(StepID(k)) /\ results[StepID(k)].status \in {"success", "failed"}) =>
                results[StepID(k)].attempt \in 1..AttemptBudget(Step(k))
        /\ (~cancelled /\ HasResult(StepID(k)) /\ results[StepID(k)].status = "failed") =>
                results[StepID(k)].attempt = AttemptBudget(Step(k))

\* retries = 1, no cancellation, and both attempts were killed at the deadline
\* of the step's own timeout.
C17_Witness ==
    \E k \in Tasks :
        /\ ~cancelled
        /\ Step(k).retries = 1
        /\ Step(k).timeout = "1s"
        /\ HasResult(StepID(k))
        /\ results[StepID(k)].status = "failed"
        /\ results[StepID(k)].error = "signal: killed"
        /\ results[StepID(k)].attempt = 2

\* Where a goroutine stands before it has entered executeStep or decided to skip.
BeforeExecuteStep == {"unborn", "acquire", "poll", "sleep", "checkFailed"}

\* C18: once execCtx is done, a task that has not started executing its
\* command never enters executeStep and is never recorded as skipped for a
\* failed dependency: it leaves through the cancelled skip.
C18_CancelledNeverStarts ==
    [][\A k \in DOMAIN pc :
        (cancelled /\ pc[k] \in BeforeExecuteStep) => pc'[k] \notin {"starting", "skipDepFailed"}]_vars

\* C19: when execCtx is done while a step pauses after failed attempt n, the
\* step makes no further attempt: executeStep returns the result of attempt n.
C19_CancelInPauseStopsRetries ==
    [][\A k \in DOMAIN pc :
        (cancelled /\ pc[k] = "pause" /\ pc'[k] # "pause") =>
            /\ pc'[k] = "record"
            /\ attempt'[k] = attempt[k]
            /\ last'[k] = last[k]]_vars

\* The step's own timeout when it is present and not zero, the default otherwise.
OwnOrDefaultTimeout(step, o) ==
    IF step.timeout # "" /\ ParseDuration(step.timeout)[1] # 0
    THEN ParseDuration(step.timeout)[1]
    ELSE o.DefaultTimeout

\* C20: the deadline under which an attempt runs its command is the step's
\* own timeout when that is present and not zero, and the default timeout of
\* the options when the step's timeout is absent or zero.
C20_DeadlineOfAttempt ==
    \A k \in Tasks : pc[k] = "running" => timeout[k] = OwnOrDefaultTimeout(Step(k), opts)

\* C21: an entry of the results map, once written, is never replaced, changed
\* or removed, before and after execCtx is done: each step's result is written
\* exactly once.
C21_ResultsWrittenOnce ==
    [][\A id \in DOMAIN results : id \in DOMAIN results' /\ results'[id] = results[id]]_vars

\* Execute is still running after a cancellation: one step's result was there
\* before and others were written after it.
C21_Witness ==
    /\ ret = <<>>
    /\ cancelled
    /\ \E id \in DOMAIN results : results[id].status = "success"
    /\ \E id \in DOMAIN results : results[id].status = "failed"
    /\ \E id \in DOMAIN results : results[id].error = "execution cancelled"

\* C22: an executed step's result has exit code 0 and status success when the
\* command exited with 0, the exit code of the process and status failed when
\* it exited with another code, and -1 and status failed when the process
\* could not be launched or did not exit normally.
C22_ExitCodes ==
    \A id \in DOMAIN results :
        LET r == results[id]
        IN  /\ r.status = "success" <=> (r.attempt >= 1 /\ r.error = "")
            /\ r.status = "success" => r.exitCode = 0
            /\ r.error = "exit status 1" => r.status = "failed" /\ r.exitCode = 1
            /\ r.error = "exit status 2" => r.status = "failed" /\ r.exitCode = 2
            /\ r.error \in {"signal: killed", "executable file not found", "context canceled"} =>
                    r.status = "failed" /\ r.exitCode = -1

C22_Witness ==
    /\ Returned
    /\ \E id \in DOMAIN results :
        /\ results[id].status = "failed"
        /\ results[id].error = "exit status 2"
        /\ results[id].exitCode = 2
        /\ results[id].attempt = 1

\* Every goroutine of the launch loop has been started and has returned.
AllTasksFinished == entered /\ launched = Len(plan.order) /\ \A k \in Tasks : pc[k] = "done"

\* C23: in a plan whose order names only steps of the plan, a goroutine that
\* has left its body has written its step's result, so once all of them have
\* finished every id of the order has an entry in results and Execute does
\* not return the "missing result" error.
C23_EveryPathRecords ==
    WellFormed(plan) =>
        /\ \A k \in Tasks : pc[k] \in {"exit", "done"} => HasResult(StepID(k))
        /\ AllTasksFinished => \A id \in Range(plan.order) : HasResult(id)
        /\ Returned => ret[1].err # "execute: missing result for step"

\* All three goroutines are through, one by each way out: after executeStep,
\* by the dependency skip and by the cancelled skip.
C23_Witness ==
    /\ AllTasksFinished
    /\ Len(plan.order) = 3
    /\ \E id \in DOMAIN results : results[id].attempt >= 1
    /\ \E id \in DOMAIN results : results[id].error = "dependency failed"
    /\ \E id \in DOMAIN results : results[id].error = "execution cancelled"

\* The step has an error that every attempt meets before it starts a process.
HasConfigError(step) ==
    \/ step.type # "shell"
    \/ Len(step.command) = 0
    \/ step.timeout # "" /\ ParseDuration(step.timeout) = <<>>

\* C24: a step with a configuration error (a type other than "shell", an
\* empty command or a malformed timeout) and r >= 0 retries never runs a
\* command; without cancellation executeStep returns for it after r + 1
\* attempts with status failed and attempt r + 1, that result is the one
\* recorded, and Execute returns it without an error of its own.
C24_ConfigErrorRetried ==
    \A k \in Tasks :
        (HasConfigError(Step(k)) /\ Step(k).retries >= 0) =>
            /\ pc[k] # "running"
            /\ (pc[k] = "record" /\ ~cancelled) =>
                    /\ last[k][1].status = "failed"
                    /\ last[k][1].attempt = Step(k).retries + 1
                    /\ attempt[k] = Step(k).retries + 1
            /\ (pc[k] \in {"track", "cancel", "exit", "done"} /\ attempt[k] >= 1) =>
                    results[StepID(k)] = last[k][1]
            /\ Returned => ret[1].err \in {"", "execute: create output directory"}
            /\ (HasExecutionResult /\ ~callerCancelled /\ Len(plan.order) = 1) =>
                    /\ ReturnedSteps[1].status = "failed"
                    /\ ReturnedSteps[1].attempt = Step(k).retries + 1

\* A step of type "script" with retries = 1: Execute has returned it as failed
\* at attempt 2.
C24_Witness ==
    /\ HasExecutionResult
    /\ ~callerCancelled
    /\ ret[1].err = ""
    /\ Len(plan.order) = 1
    /\ plan.steps[1].type = "script"
    /\ plan.steps[1].retries = 1
    /\ ReturnedSteps[1].status = "failed"
    /\ ReturnedSteps[1].error = "unsupported step type"
    /\ ReturnedSteps[1].attempt = 2

C27_CycleErrorMeansCycle ==
    (Sorted /\ sortOut[1].err = "cycle detected") => HasCycle(sortIn)

\* C28: when a step lists a dependency that is the id of no step, every call
\* of TopologicalSort on the steps returns an error and no order, and Build
\* returns an error and no Plan.
C28_DanglingIsError ==
    ~DepsExist(buildIn.steps) =>
        /\ \A mapOrder \in Orderings(StepMapKeys(buildIn.steps)) :
              LET sorted == TopologicalSort(ToPlanSteps(buildIn.steps), mapOrder)
              IN  sorted.err # "" /\ sorted.isNil /\ sorted.order = <<>>
        /\ \A i \in 1..Len(builds) : builds[i].err # "" /\ ~HasPlan(builds[i])

\* Build was called with names, distinct ids and no cycle, and a dependency
\* that no step carries.
C28_Witness ==
    /\ Len(builds) >= 1
    /\ buildIn.projectName # "" /\ buildIn.profileName # ""
    /\ Len(buildIn.steps) = 2
    /\ UniqueIds(buildIn.steps) /\ ~HasCycle(buildIn.steps)
    /\ ~DepsExist(buildIn.steps)
    /\ ~HasPlan(builds[1])

\* The accesses a goroutine makes between Lock() and Unlock() of each mutex.
ResultsAccess(k) == PollDeps(k) \/ RecordCancelled(k) \/ RecordDepFailed(k) \/ RecordResult(k)

FailedAccess(k) == CheckDepFailed(k) \/ TrackFailure(k)

\* C29: resultsMu and failedMu are each held for one read or write only: the
\* holder stands at an access of the map the mutex guards, no goroutine holds
\* a mutex while it waits for the semaphore, sleeps between polls, runs a
\* command or pauses between retries, none holds both, and the holder can
\* always go on to its Unlock, so the mutexes never deadlock.
C29_LocksHeldBriefly ==
    /\ resultsMu # 0 =>
          /\ resultsMu \in Tasks
          /\ pc[resultsMu] \in {"poll", "skipCancelled", "skipDepFailed", "record"}
          /\ ENABLED ResultsAccess(resultsMu)
    /\ failedMu # 0 =>
          /\ failedMu \in Tasks
          /\ pc[failedMu] \in {"checkFailed", "track"}
          /\ ENABLED FailedAccess(failedMu)
    /\ \A k \in Tasks :
          pc[k] \in {"acquire", "sleep", "starting", "running", "pause"} => k \notin {resultsMu, failedMu}
    /\ resultsMu = 0 \/ resultsMu # failedMu

\* One goroutine is about to write its result under resultsMu while another
\* reads failedSteps under failedMu.
C29_Witness ==
    /\ resultsMu # 0 /\ failedMu # 0
    /\ pc[resultsMu] = "record"
    /\ pc[failedMu] = "checkFailed"

\* C30: every step ends in one terminal state: a goroutine that has left its
\* body has recorded a result that is success, failed or skipped; a skipped
\* result has attempt 0, exit code 0 and error "execution cancelled" or
\* "dependency failed" and its step never entered executeStep; a success or
\* failed result has attempt >= 1; and once a step's result is recorded, the
\* result stays as it is and the step makes no further attempt.
C30_TerminalStates ==
    /\ [](\A k \in Tasks :
            /\ pc[k] \in {"exit", "done"} => HasResult(StepID(k))
            /\ HasResult(StepID(k)) =>
                  LET r == results[StepID(k)]
                  IN  /\ r.status \in {"success", "failed", "skipped"}
                      /\ pc[k] \in {"track", "cancel", "exit", "done"}
                      /\ r.status = "skipped" =>
                            /\ r.attempt = 0 /\ r.exitCode = 0
                            /\ r.error \in {"execution cancelled", "dependency failed"}
                            /\ attempt[k] = 0 /\ last[k] = <<>>
                      /\ r.status \in {"success", "failed"} =>
                            r.attempt >= 1 /\ last[k] = <<r>>)
    /\ [][\A k \in Tasks :
            HasResult(StepID(k)) =>
                /\ StepID(k) \in DOMAIN results'
                /\ results'[StepID(k)] = results[StepID(k)]
                /\ attempt'[k] = attempt[k] /\ last'[k] = last[k]
                /\ pc'[k] \in {"track", "cancel", "exit", "done"}]_vars

\* All three steps have finished: one succeeded, one failed, and one was
\* skipped.
C30_Witness ==
    /\ AllTasksFinished /\ Len(plan.order) = 3
    /\ \E id \in DOMAIN results : results[id].status = "success"
    /\ \E id \in DOMAIN results : results[id].status = "failed"
    /\ \E id \in DOMAIN results : results[id].status = "skipped" /\ results[id].error = "execution cancelled"

\* C31: when execCtx is done while attempt n of a step runs and the attempt
\* fails, executeStep returns that attempt's result although retries remain,
\* and the StepResult written for the step is failed with attempt n.
C31_CancelWhileRunningStopsRetries ==
    [][\A k \in DOMAIN pc :
        /\ (cancelled /\ pc[k] = "running" /\ pc'[k] # "running") =>
              /\ pc'[k] = "record"
              /\ attempt'[k] = attempt[k]
              /\ last'[k][1].attempt = attempt[k]
        /\ (pc[k] = "record" /\ pc'[k] # "record") =>
              /\ attempt'[k] = attempt[k]
              /\ results'[StepID(k)] = last[k][1]
        /\ (pc[k] \in AfterExecuteStep \ {"record"}) =>
              /\ attempt'[k] = attempt[k]
              /\ pc'[k] \in AfterExecuteStep \ {"record"}]_vars

\* A step with one retry left and no timeout was killed in its first
\* attempt, and its result is failed with attempt 1.
C31_Witness ==
    \E k \in Tasks :
        /\ pc[k] = "done" /\ cancelled
        /\ Step(k).retries = 1 /\ timeout[k] = 0
        /\ HasResult(StepID(k))
        /\ results[StepID(k)].status = "failed"
        /\ results[StepID(k)].error = "signal: killed"
        /\ results[StepID(k)].attempt = 1

\* Jobs is at least the number of steps of the plan.
SlotForEveryStep == opts.Jobs >= Len(plan.steps)

\* C35: when Jobs is at least the number of steps, every command ends by
\* itself and the caller never cancels, Execute eventually returns with every
\* step in a terminal state, in every fair interleaving.
C35_NoDeadlockWithEnoughJobs ==
    (SlotForEveryStep /\ AllCommandsEnd) => <>(callerCancelled \/ AllTerminal)

\* Three steps, the last depending on the two before it, three jobs: Execute
\* has returned every step's result.
C35_Witness ==
    /\ Returned /\ ~callerCancelled /\ ret[1].err = ""
    /\ Len(plan.steps) = 3 /\ opts.Jobs = 3
    /\ Len(plan.steps[3].deps) = 2
    /\ \A id \in Range(plan.order) : HasResult(id)

\* C36: the command of a step runs only if every one of its direct
\* dependencies has a result with status success; a step with a skipped
\* dependency is not executed.
C36_RunsOnlyAfterSuccess ==
    \A k \in Tasks :
        pc[k] = "running" =>
            \A d \in Range(Step(k).deps) : HasResult(d) /\ results[d].status = "success"

\* C37: when Execute has returned the error "step in order but not in
\* steps", no goroutine launched for an earlier id of the order has entered
\* executeStep, runs a command or has written a result.
C37_MissingStepStartsNothing ==
    (Returned /\ ret[1].err = "execute: step in order but not in steps") =>
        \A k \in Tasks :
            /\ attempt[k] = 0
            /\ pc[k] \notin {"starting", "running", "pause"}
            /\ ~HasResult(StepID(k))

\* C38: the number of tokens in sem is between 0 and Jobs, a goroutine holds
\* at most one of them, a goroutine that has returned holds none whichever
\* way it left, and no token is held once Execute has returned.
C38_SlotsReleased ==
    /\ 0 <= sem /\ sem <= opts.Jobs
    /\ sem = Cardinality(slot)
    /\ \A k \in Tasks : pc[k] = "done" => k \notin slot
    /\ Returned => sem = 0

(***************************************************************************)
(* Properties of Validate and ResolveProfile.                              *)
(***************************************************************************)
StepIds(steps) == {steps[i].id : i \in 1..Len(steps)}

\* merged is base with every step replaced in place by the step of own with
\* its id, if there is one, followed by the steps of own whose ids base does
\* not have, in the order of own.
MergedAsDescribed(base, own, merged) ==
    LET fresh == SelectSeq(own, LAMBDA st : st.id \notin StepIds(base))
    IN  /\ Len(merged) = Len(base) + Len(fresh)
        /\ \A i \in 1..Len(base) :
              merged[i] = IF base[i].id \in StepIds(own)
                          THEN own[CHOOSE j \in 1..Len(own) : own[j].id = base[i].id]
                          ELSE base[i]
        /\ \A i \in 1..Len(fresh) : merged[Len(base) + i] = fresh[i]

\* What ResolveProfile returned is, level by level, the merge the claim
\* describes of the resolved parent and the profile's own steps.
ResolvedAsDescribed ==
    LET profile == cfg.profiles[resolveName]
        base == IF profile.extends = "" THEN <<>>
                ELSE ResolveProfile(cfg, FALSE, profile.extends).steps
    IN  /\ MergedAsDescribed(base, profile.steps, resolved[1].steps)
        /\ profile.extends = "" => resolved[1].steps = profile.steps

ResolvedWithoutError == resolved # <<>> /\ ~cfgNil /\ resolved[1].err = ""

\* C32 (as stated): ResolveProfile returns the steps of the extends chain
\* merged from the root down: a child step with an inherited id replaces the
\* inherited step in place, every other child step is appended in declaration
\* order, and a profile without extends resolves to its own steps in order.
C32_ResolveMergesAny == ResolvedWithoutError => ResolvedAsDescribed

\* C32 (amended): the same, for configurations in which the steps of each
\* profile have pairwise distinct ids.
C32_ResolveMerges ==
    (ResolvedWithoutError /\ \A name \in DOMAIN cfg.profiles : UniqueIds(cfg.profiles[name].steps))
        => ResolvedAsDescribed

\* release extends ci extends base: base declares a and b, ci replaces b,
\* release replaces a.
C32_Witness ==
    /\ ResolvedWithoutError /\ resolveName = "release"
    /\ cfg.profiles["release"].extends = "ci" /\ cfg.profiles["ci"].extends = "base"
    /\ Len(cfg.profiles["base"].steps) = 2
    /\ resolved[1].steps = << ConfigStep(IdList[1], "shell", <<"release">>, <<>>),
                              ConfigStep(IdList[2], "shell", <<"ci">>, <<>>) >>

Accepted == validated = <<"">>

\* C33: for a configuration Validate accepts and the name of any of its
\* profiles, ResolveProfile returns steps with pairwise distinct ids in which
\* every dependency id is the id of a returned step.
C33_ResolvedWellFormed ==
    (Accepted /\ resolved # <<>> /\ resolveName \in DOMAIN cfg.profiles) =>
        /\ resolved[1].err = ""
        /\ UniqueIds(resolved[1].steps)
        /\ DepsExist(resolved[1].steps)

\* ci extends base and replaces a step that an inherited step depends on.
C33_Witness ==
    /\ Accepted /\ resolved # <<>> /\ resolveName = "ci"
    /\ "ci" \in DOMAIN cfg.profiles
    /\ cfg.profiles["ci"].extends = "base"
    /\ resolved[1].steps = << ConfigStep(IdList[1], "shell", <<"ci">>, <<>>),
                              ConfigStep(IdList[2], "shell", <<"base">>, <<IdList[1]>>) >>

\* The profile a name extends, if the name is a profile's and it extends one.
ExtendsOf(c, name) ==
    IF name \in DOMAIN c.profiles /\ c.profiles[name].extends # ""
    THEN {c.profiles[name].extends} ELSE {}

RECURSIVE CloseExtends(_, _)
CloseExtends(c, S) ==
    LET T == S \cup UNION {ExtendsOf(c, x) : x \in S}
    IN  IF T = S THEN S ELSE CloseExtends(c, T)

\* Every name reached by following extends from name.
ProfileAncestors(c, name) == CloseExtends(c, ExtendsOf(c, name))

\* Following extends from the profile name comes back to a profile already
\* visited.
ChainRevisits(c, name) ==
    /\ name \in DOMAIN c.profiles
    /\ \E n \in {name} \cup ProfileAncestors(c, name) : n \in ProfileAncestors(c, n)

HasExtendsCycle(c) == \E name \in DOMAIN c.profiles : ChainRevisits(c, name)

Circular(err) == err \in {"validate: circular extends chain detected",
                          "resolve profile: circular extends chain detected"}

\* C34: Validate rejects every configuration in which following extends from
\* some profile reaches a profile already visited, a profile extending itself
\* included; Validate and ResolveProfile end on every configuration without
\* exhausting the stack, and on a circular chain they return the "circular"
\* error.
C34_CyclesRejected ==
    /\ validated # <<>> =>
          /\ validated[1] # StackOverflow
          /\ (~cfgNil /\ HasExtendsCycle(cfg)) => validated[1] # ""
          /\ (~cfgNil /\ cfg.version = 1 /\ cfg.projectName # ""
                /\ DOMAIN cfg.profiles # {}
                /\ \A name \in DOMAIN cfg.profiles : ChainRevisits(cfg, name))
                => Circular(validated[1])
    /\ resolved # <<>> =>
          /\ resolved[1].err # StackOverflow
          /\ (~cfgNil /\ ChainRevisits(cfg, resolveName)) =>
                resolved[1].steps = <<>> /\ Circular(resolved[1].err)

\* base extends ci, ci extends release, release extends ci: both calls
\* returned the circular error.
C34_Witness ==
    /\ validated # <<>> /\ Circular(validated[1])
    /\ resolved # <<>> /\ Circular(resolved[1].err)
    /\ resolveName = "base"
    /\ DOMAIN cfg.profiles = {"base", "ci", "release"}
    /\ cfg.profiles["base"].extends = "ci"
    /\ cfg.profiles["ci"].extends = "release"
    /\ cfg.profiles["release"].extends = "ci"

\* What resolving the profile name gives.
ResolvedSteps(c, name) == ResolveProfile(c, FALSE, name).steps

\* Some step of a profile that extends another lists the id of a step that
\* the profile does not declare and inherits.
InheritsOnlyDep(c) ==
    \E name \in DOMAIN c.profiles :
        LET profile == c.profiles[name]
        IN  /\ profile.extends \in DOMAIN c.profiles
            /\ \E i \in 1..Len(profile.steps) : \E dep \in Range(profile.steps[i].deps) :
                  /\ dep \notin StepIds(profile.steps)
                  /\ dep \in StepIds(ResolvedSteps(c, profile.extends))

\* Nothing else is wrong with the configuration: its header, its extends
\* chains, the ids, types and commands of its steps; and every dep of every
\* profile is the id of a step of the resolved profile.
OtherwiseValid(c) ==
    /\ c.version = 1 /\ c.projectName # "" /\ DOMAIN c.profiles # {}
    /\ ~HasExtendsCycle(c)
    /\ \A name \in DOMAIN c.profiles :
          /\ c.profiles[name].extends \in {""} \cup DOMAIN c.profiles
          /\ ValidateSteps(c.profiles[name].steps, {}) = ""
          /\ DepsExist(ResolvedSteps(c, name))

\* C39: a configuration in which a step of a child profile depends on a step
\* it only inherits is accepted by Validate, and ResolveProfile returns steps
\* in which the dependency resolves.
C39_InheritedDepAccepted ==
    (validated # <<>> /\ ~cfgNil /\ InheritsOnlyDep(cfg) /\ OtherwiseValid(cfg)) =>
        /\ Accepted
        /\ \A name \in DOMAIN cfg.profiles :
              ResolveProfile(cfg, FALSE, name).err = "" /\ DepsExist(ResolvedSteps(cfg, name))

====
